---- MODULE Spec2Model ----
(***************************************************************************)
(* A model of the guide acquisition and enrichment pipeline of             *)
(* zattoo_epg.py (class ZattooEPG).                                        *)
(*                                                                         *)
(* SpecEnhance models ZattooEPG.enhance_epg_data: the collection of the    *)
(* program ids, the batch loop, the retry loop around                      *)
(* get_program_details_batch, the merge of the detail map into epg_data    *)
(* and the final statistics.  SpecEnhanceFair adds that every step of the *)
(* method is taken in the end, for the claim that it terminates.           *)
(*                                                                         *)
(* SpecWindows models ZattooEPG.download_epg_data: the window loop, the    *)
(* timestamps of every window request, the ways a request ends and the     *)
(* records a window contributes.                                           *)
(*                                                                         *)
(* SpecClean models ZattooEPG._clean_text, applied to a text and then to   *)
(* its own result.  SpecXmltv models ZattooEPG.generate_xmltv on channel   *)
(* sets and records of every shape.  SpecRun models main: the session      *)
(* token, the login, the channel list, then the download, the enrichment   *)
(* and the document, with the actions of the other specifications.         *)
(***************************************************************************)
EXTENDS Integers, Sequences, FiniteSets, TLC

(***************************************************************************)
(* Bounds of the model.                                                    *)
(***************************************************************************)
\* The largest epg_data of the sized inputs (8 batches of 20 at 141).
MaxPrograms == 141
\* The longest epg_data of the inputs that mix id representations.
MaxSmallLen == 2
\* The source answers at most this many requests of a run with a non-empty
\* detail map; every other request fails or comes back empty.
MaxServed == 2
\* A daylight-saving change falls on one of the local days 0..MaxDstDay
\* (day 0 is the day of the run).
MaxDstDay == 2
\* The source returns at most this many listing records over the windows
\* of one download.
MaxRecords == 2
\* The longest text _clean_text is applied to.
MaxTextLen == 4
\* The longest epg_data generate_xmltv is applied to on its own.
MaxXmlLen == 2
\* The most days a whole run of main downloads.
MaxRunDays == 1

(***************************************************************************)
(* Program constants.                                                      *)
(***************************************************************************)
batch_size == 20
max_retries == 3
\* `if connection_errors > 5`
MaxConnectionErrors == 5
\* time.sleep(1.0) and time.sleep(0.5), in milliseconds
LongPaceMs == 1000
ShortPaceMs == 500
\* --days: choices=range(1, 15)
MaxDays == 14
\* `for part in range(4)`
PartsPerDay == 4
\* timedelta(hours=part * 6), timedelta(hours=6)
PartHours == 6
\* replace(hour=6, minute=0, second=0, microsecond=0)
BaseHour == 6

VARIABLES
    pc,                 \* position of the running method
    epg_data,           \* self.epg_data: sequence of [id, hits]
    program_ids,        \* enhance_epg_data: the collected ids (strings)
    i,                  \* enhance_epg_data: loop variable of the batch loop
    batch_details,      \* the detail map of the last request (its key set)
    retry_count,        \* retries made for the current batch
    connection_errors,
    enhanced_count,
    failed_count,
    exception,          \* the exception that left the method, or "none"
    \* observations of the run (not program state)
    requests,           \* detail requests issued so far
    attempts,           \* current batch: per request, whether the map was empty
    waits,              \* current batch: the backoff sleeps made, in ms
    served,             \* requests answered with a non-empty detail map
    paces,              \* the pacing sleeps made, one per merged batch, in ms
    outcomes,           \* per merged batch: TRUE when every attempt was empty
    \* download_epg_data
    days,               \* the argument
    now,                \* datetime.now(): local wall-clock seconds, day 0 at 0
    tz,                 \* the local time zone's UTC offsets
    base_date,
    day,                \* loop variables of the window loop
    part,
    windows,            \* the start/end params of the requests issued
    all_programs,
    window_ok,          \* observation: some window request has succeeded
    origins,            \* observation: for every record of all_programs the
                        \* window, channel and place the source sent it in
    result,             \* what download_epg_data returned, or "none"
    \* the session: get_session_token, login, get_channels
    country,            \* self.country
    power_guide_hash,   \* self.power_guide_hash, "" while it is None
    channels,           \* self.channels: the [cid, title, logo] in dict order
    cookie,             \* the session carries the Cookie header
    sent,               \* observation: the requests of the three methods,
                        \* each with the response it got, in order
    \* generate_xmltv
    return_data,        \* the argument; the file mode when FALSE
    document,           \* the tv element: [channels, programmes]
    xml_result,         \* what generate_xmltv returned, or "none"
    \* main
    args,               \* the parsed command line
    calls,              \* the methods main called, each with its result
    printed,            \* the lines of the summary output
    exit_status,        \* how the process ended, or "running"
    \* _clean_text
    text,               \* the argument
    once,               \* _clean_text(text)
    twice               \* _clean_text(_clean_text(text))

enhVars == <<program_ids, i, batch_details, retry_count,
             connection_errors, enhanced_count, failed_count, exception,
             requests, attempts, waits, served, paces, outcomes>>

dlVars == <<days, now, tz, base_date, day, part, windows, all_programs,
            window_ok, origins, result>>

authVars == <<country, power_guide_hash, channels, cookie, sent>>

xmlVars == <<return_data, document, xml_result>>

mainVars == <<args, calls, printed, exit_status>>

cleanVars == <<text, once, twice>>

\* what neither enhance_epg_data nor download_epg_data touches
restVars == <<authVars, xmlVars, mainVars, cleanVars>>

vars == <<pc, epg_data, enhVars, dlVars, restVars>>

(***************************************************************************)
(* Python values that occur as a program's 'id': None (the key is absent), *)
(* an int, or a str (a sequence of one-character strings).                 *)
(***************************************************************************)
PyNone == [type |-> "none", n |-> 0, s |-> <<>>]
PyInt(k) == [type |-> "int", n |-> k, s |-> <<>>]
PyStr(t) == [type |-> "str", n |-> 0, s |-> t]

Digits == <<"0", "1", "2", "3", "4", "5", "6", "7", "8", "9">>

IsDigit(c) == \E d \in 1..10 : Digits[d] = c

DigitVal(c) == (CHOOSE d \in 1..10 : Digits[d] = c) - 1

\* str(n) of a non-negative int: its decimal digits, no leading zero.
RECURSIVE NatToStr(_)
NatToStr(n) ==
    IF n < 10 THEN <<Digits[n + 1]>>
    ELSE NatToStr(n \div 10) \o <<Digits[(n % 10) + 1]>>

\* str(v)
str(v) ==
    CASE v.type = "int" -> NatToStr(v.n)
      [] v.type = "str" -> v.s
      [] OTHER -> <<"N", "o", "n", "e">>

\* int(s) succeeds on a non-empty string of decimal digits (the model's
\* strings hold no sign, blank or underscore); otherwise ValueError.
IsNumeric(s) == Len(s) > 0 /\ \A k \in 1..Len(s) : IsDigit(s[k])

RECURSIVE int(_)
int(s) ==
    IF Len(s) = 0 THEN 0
    ELSE 10 * int(SubSeq(s, 1, Len(s) - 1)) + DigitVal(s[Len(s)])

\* `if program_id:`
Truthy(v) ==
    CASE v.type = "int" -> v.n # 0
      [] v.type = "str" -> v.s # <<>>
      [] OTHER -> FALSE

(***************************************************************************)
(* The inputs: epg_data as download_epg_data can leave it.  A record is    *)
(* [id, hits]: id is the program's 'id', hits the keys of the detail       *)
(* records that program.update() overlaid on it, in order.                 *)
(***************************************************************************)
Program(id) == [id |-> id, hits |-> <<>>]

\* ids in the representations the source can send: absent, int (0 too),
\* canonical decimal string, string with a leading zero, non-numeric.
SmallIds ==
    {PyNone, PyInt(0), PyInt(5), PyInt(7), PyStr(<<"5">>),
     PyStr(<<"0", "5">>), PyStr(<<"a">>)}

SmallEpg ==
    UNION {[1..n -> {Program(v) : v \in SmallIds}] : n \in 0..MaxSmallLen}

\* n programs with ids 1..n, ints at odd and strings at even positions;
\* with dup, the last program repeats the id of the one before it (the
\* same program listed by two adjacent windows).
SizedEpg(n, dup) ==
    [k \in 1..n |->
        LET v == IF dup /\ k = n /\ n > 1 THEN k - 1 ELSE k
        IN  Program(IF v % 2 = 1 THEN PyInt(v) ELSE PyStr(NatToStr(v)))]

ProgramCounts == {batch_size, batch_size + 1, 2 * batch_size, MaxPrograms}

EpgInputs ==
    SmallEpg \cup {SizedEpg(n, FALSE) : n \in ProgramCounts}
             \cup {SizedEpg(n, TRUE) : n \in {batch_size, batch_size + 1}}

(***************************************************************************)
(* get_program_details_batch (lines 292-330): the detail map, or {} on a   *)
(* non-200 status, success=false, a timeout or any other exception.        *)
(***************************************************************************)
UpstreamOutcomes == {"ok", "http_error", "not_success", "timeout", "exception"}

get_program_details_batch(outcome, programs) ==
    IF outcome = "ok" THEN programs ELSE {}

\* The key sets the source answers a batch with: nothing, the details of
\* the first three quarters of the batch, or of the whole batch.
Keys(ids) == {ids[k] : k \in 1..Len(ids)}

UpstreamPrograms(batch) ==
    {Keys(SubSeq(batch, 1, k)) :
        k \in {0, (3 * Len(batch)) \div 4, Len(batch)}}

(***************************************************************************)
(* enhance_epg_data (lines 344-443).                                       *)
(***************************************************************************)
\* lines 349-353
CollectIds(epg) ==
    LET kept == SelectSeq(epg, LAMBDA r : Truthy(r.id))
    IN  [k \in 1..Len(kept) |-> str(kept[k].id)]

\* line 363
total_batches(n) == (n + batch_size - 1) \div batch_size

\* line 366: program_ids[i:i + batch_size]
Batch(ids, start) ==
    SubSeq(ids, start + 1,
           IF start + batch_size < Len(ids) THEN start + batch_size ELSE Len(ids))

\* A retry loop that runs once more than max_retries allows; C1's bound on
\* the requests of a batch does not survive it.
RetryLoopRunsOnceMore(rc, details) == rc <= max_retries /\ details = {}

\* A retry loop that goes on for as long as the map is empty; C27 does not
\* survive it.
RetryLoopRunsWhileEmpty(rc, details) == details = {}

\* line 379: the condition of the retry loop
RetryLoopRuns(rc, details) == rc < max_retries /\ details = {}

\* line 384, in milliseconds
wait_time(rc) == (2 ^ rc) * 1000

\* int(program_id) as line 399 evaluates it: the number, or -1 for ValueError
ParseInt(program_id) == IF IsNumeric(program_id) THEN int(program_id) ELSE -1

\* A comparison of the stored id with the key as they are, without str()
\* or int(); C8 does not survive it.
CompareExact(program_db_id, db_str, program_id, as_int) ==
    IF program_db_id.type = "str" /\ program_db_id.s = program_id
    THEN "match" ELSE "differ"

\* line 399: str(program_db_id) == program_id or program_db_id == int(program_id)
\* with db_str = str(program_db_id) and as_int = ParseInt(program_id), which
\* the loops below compute once: "match", "differ", or "raise" when the
\* first comparison fails and int() raises ValueError.
Compare(program_db_id, db_str, program_id, as_int) ==
    IF db_str = program_id THEN "match"
    ELSE IF as_int = -1 THEN "raise"
    ELSE IF program_db_id.type = "int" /\ program_db_id.n = as_int THEN "match"
    ELSE "differ"

\* the concrete sequence of a function over 1..n
Tuple(f) == SubSeq(f, 1, Len(f))

Indices(n) == Tuple([k \in 1..n |-> k])

\* lines 396-403: the inner loop runs down epg_data and ends at the first
\* program whose comparison matches (update, break) or raises.  The index
\* of the program that matched, 0 when none did, -1 when line 399 raised.
\* db_strs[j] = str(epg[j].id).
FindProgram(epg, db_strs, program_id) ==
    LET as_int == ParseInt(program_id)
        ends == SelectSeq(Indices(Len(epg)),
                          LAMBDA j : Compare(epg[j].id, db_strs[j],
                                             program_id, as_int) # "differ")
    IN  IF ends = <<>> THEN 0
        ELSE IF Compare(epg[ends[1]].id, db_strs[ends[1]], program_id, as_int)
                  = "raise"
             THEN -1 ELSE ends[1]

\* line 399: str(program_db_id) of every record, in order
DbStrs(epg) == Tuple([j \in 1..Len(epg) |-> str(epg[j].id)])

\* lines 392-405: what the pass of the outer loop for batch[k] does: the
\* index of the record it updates, -1 when line 399 raises, -2 when the id
\* is not in the map (line 405).  The detail field-bags carry enrichment
\* fields and no 'id', so every pass reads the ids epg_data had when the
\* batch began.
Targets(epg, db_strs, batch, details) ==
    Tuple([k \in 1..Len(batch) |->
             IF batch[k] \in details
             THEN FindProgram(epg, db_strs, batch[k]) ELSE -2])

\* lines 391-405 with the passes known: last is the last pass that ran (the
\* one that raised, or the end of the batch).
MergeTargets(epg, batch, target) ==
    LET raising == SelectSeq(Indices(Len(batch)), LAMBDA k : target[k] = -1)
        last == IF raising = <<>> THEN Len(batch) ELSE raising[1]
        passes == Indices(last)
        updated == {target[k] : k \in 1..last} \ {-2, -1, 0}
    IN  [epg |-> [j \in 1..Len(epg) |->
                    IF j \in updated
                    THEN LET mine == SelectSeq(passes, LAMBDA k : target[k] = j)
                         IN  [epg[j] EXCEPT !.hits =
                                @ \o [h \in 1..Len(mine) |-> batch[mine[h]]]]
                    ELSE epg[j]],
         enhanced |-> Len(SelectSeq(passes, LAMBDA k : target[k] > 0)),
         failed |-> Len(SelectSeq(passes, LAMBDA k : target[k] = -2)),
         raised |-> raising # <<>>]

\* lines 391-405: the merge of one batch.  The strings and the passes are
\* computed once and handed on as values.
MergeBatch(epg, batch, details) ==
    CHOOSE m \in UNION {{MergeTargets(epg, ids, target) :
                           target \in {Targets(epg, db_strs, ids, details) :
                                         db_strs \in {DbStrs(epg)}}} :
                        ids \in {batch}} : TRUE

\* A pacing that does not look at the batch; C24 does not survive it.
PaceMsFlat(batch_enhanced) == ShortPaceMs

\* lines 415-420
PaceMs(batch_enhanced) == IF batch_enhanced = 0 THEN LongPaceMs ELSE ShortPaceMs

\* A threshold test that is late by one; C5 does not survive it.
TooManyErrorsLate(errors) == errors > MaxConnectionErrors + 1

\* line 423
TooManyErrors(errors) == errors > MaxConnectionErrors

\* A count that a batch with details resets (a streak count); C6 as
\* amended does not survive it.
NextErrorsStreak(errors, details, rc) ==
    IF details = {} /\ ~(rc < max_retries) THEN errors + 1
    ELSE IF details # {} THEN 0 ELSE errors

\* A count of every empty answer instead of every exhausted batch; C26
\* does not survive it.
NextErrorsEach(errors, details, rc) ==
    IF details = {} THEN errors + 1 ELSE errors

\* lines 381-388: connection_errors after a request that left the retry
\* count at rc: one more when the map is empty and no retry is left.
NextErrors(errors, details, rc) ==
    IF details = {} /\ ~(rc < max_retries) THEN errors + 1 ELSE errors

\* download_epg_data is not running
DownloadIdle ==
    /\ days = 0
    /\ now = 0
    /\ tz = [before |-> 0, after |-> 0, day |-> 0]
    /\ base_date = 0
    /\ day = 0
    /\ part = 0
    /\ windows = <<>>
    /\ all_programs = <<>>
    /\ window_ok = FALSE
    /\ origins = <<>>
    /\ result = "none"

\* no session yet: the state __init__ leaves (lines 35-41)
AuthIdle ==
    /\ country = "DE"
    /\ power_guide_hash = ""
    /\ channels = <<>>
    /\ cookie = FALSE
    /\ sent = <<>>

\* generate_xmltv has not run
XmlIdle ==
    /\ return_data = FALSE
    /\ document = [channels |-> <<>>, programmes |-> <<>>]
    /\ xml_result = "none"

\* main is not running
MainIdle ==
    /\ args = [no_details |-> FALSE, tvheadend |-> FALSE,
               tvheadend_only |-> FALSE]
    /\ calls = <<>>
    /\ printed = <<>>
    /\ exit_status = "running"

\* _clean_text has not run
CleanIdle ==
    /\ text = <<>>
    /\ once = <<>>
    /\ twice = <<>>

EnhanceIdle ==
    /\ program_ids = <<>>
    /\ i = 0
    /\ batch_details = {}
    /\ retry_count = 0
    /\ connection_errors = 0
    /\ enhanced_count = 0
    /\ failed_count = 0
    /\ exception = "none"
    /\ requests = 0
    /\ attempts = <<>>
    /\ waits = <<>>
    /\ served = 0
    /\ paces = <<>>
    /\ outcomes = <<>>

InitEnhance ==
    /\ pc = "start"
    /\ epg_data \in EpgInputs
    /\ EnhanceIdle
    /\ DownloadIdle
    /\ AuthIdle /\ XmlIdle /\ MainIdle /\ CleanIdle

\* lines 375-377: a batch begins
BeginBatch ==
    /\ batch_details' = {}
    /\ retry_count' = 0
    /\ attempts' = <<>>
    /\ waits' = <<>>

\* lines 346-365: collect the ids, reset the counters, enter the loop
Collect ==
    /\ pc = "start"
    /\ program_ids' = CollectIds(epg_data)
    /\ i' = 0
    /\ enhanced_count' = 0
    /\ failed_count' = 0
    /\ connection_errors' = 0
    /\ BeginBatch
    /\ pc' = IF Len(program_ids') > 0 THEN "request" ELSE "final"
    /\ UNCHANGED <<epg_data, exception, requests, served, paces, outcomes>>
    /\ UNCHANGED <<dlVars, restVars>>

\* lines 379-388: one pass of the retry loop
Request ==
    /\ pc = "request"
    /\ \E outcome \in UpstreamOutcomes :
       \E programs \in (IF outcome = "ok"
                        THEN UpstreamPrograms(Batch(program_ids, i)) ELSE {{}}) :
          LET details == get_program_details_batch(outcome, programs)
              rc == IF details = {} THEN retry_count + 1 ELSE retry_count
          IN  /\ details # {} => served < MaxServed
              /\ served' = IF details # {} THEN served + 1 ELSE served
              /\ batch_details' = details
              /\ retry_count' = rc
              /\ requests' = requests + 1
              /\ attempts' = Append(attempts, details = {})
              /\ waits' = IF details = {} /\ rc < max_retries
                          THEN Append(waits, wait_time(rc)) ELSE waits
              /\ connection_errors' = NextErrors(connection_errors, details, rc)
              /\ pc' = IF RetryLoopRuns(rc, details) THEN "request" ELSE "merge"
    /\ UNCHANGED <<epg_data, program_ids, i, enhanced_count, failed_count,
                   exception, paces, outcomes>>
    /\ UNCHANGED <<dlVars, restVars>>

\* lines 390-425: merge, pace, early abort, next batch
Merge ==
    /\ pc = "merge"
    /\ \E m \in {MergeBatch(epg_data, Batch(program_ids, i), batch_details)} :
           /\ epg_data' = m.epg
           /\ IF m.raised
              THEN /\ pc' = "raised"
                   /\ exception' = "ValueError"
                   /\ UNCHANGED <<i, batch_details, retry_count, attempts, waits,
                                  enhanced_count, failed_count, paces, outcomes>>
              ELSE /\ enhanced_count' = enhanced_count + m.enhanced
                   /\ failed_count' = failed_count + m.failed
                   /\ paces' = Append(paces, PaceMs(m.enhanced))
                   /\ outcomes' = Append(outcomes,
                                         \A k \in 1..Len(attempts) : attempts[k])
                   /\ exception' = exception
                   /\ IF TooManyErrors(connection_errors)
                      THEN /\ pc' = "final"
                           /\ UNCHANGED <<i, batch_details, retry_count,
                                          attempts, waits>>
                      ELSE /\ i' = i + batch_size
                           /\ BeginBatch
                           /\ pc' = IF i' < Len(program_ids)
                                    THEN "request" ELSE "final"
    /\ UNCHANGED <<program_ids, connection_errors, requests, served>>
    /\ UNCHANGED <<dlVars, restVars>>

\* line 439: total_time/len(program_ids)
FinalRaises(ids) == Len(ids) = 0

\* lines 427-443: the final statistics
Final ==
    /\ pc = "final"
    /\ IF FinalRaises(program_ids)
       THEN pc' = "raised" /\ exception' = "ZeroDivisionError"
       ELSE pc' = "returned" /\ exception' = exception
    /\ UNCHANGED <<epg_data, program_ids, i, batch_details, retry_count,
                   connection_errors, enhanced_count, failed_count,
                   requests, attempts, waits, served, paces, outcomes>>
    /\ UNCHANGED <<dlVars, restVars>>

NextEnhance == Collect \/ Request \/ Merge \/ Final

SpecEnhance == InitEnhance /\ [][NextEnhance]_vars

\* enhance_epg_data as a sequential method whose every step is taken in the
\* end: each request returns or times out (timeout=30, line 307), each
\* sleep (lines 386, 417, 420) ends, nothing else waits.
SpecEnhanceFair == SpecEnhance /\ WF_vars(NextEnhance)

(***************************************************************************)
(* download_epg_data (lines 208-290).  Local wall-clock time is counted    *)
(* in seconds from 00:00 of the day of the run; a naive datetime is such a *)
(* number, and timedelta arithmetic on it is plain addition.               *)
(***************************************************************************)
Hour == 60 * 60

Day == 24 * Hour

\* The time zones of the machine: a fixed offset, or an offset that changes
\* at 03:00 local time of day tz.day (before: the UTC offset until then).
TimeZones ==
    {[before |-> 0, after |-> 0, day |-> 0]} \cup
    {[before |-> Hour, after |-> 2 * Hour, day |-> d] : d \in 0..MaxDstDay} \cup
    {[before |-> 2 * Hour, after |-> Hour, day |-> d] : d \in 0..MaxDstDay}

\* datetime.utcoffset of a naive local time (fold=0)
UtcOffset(wall, zone) ==
    IF wall < zone.day * Day + 3 * Hour THEN zone.before ELSE zone.after

\* lines 236-237: int(t.timestamp()) of a naive local datetime, in seconds
\* from 00:00 UTC of the day of the run
timestamp(wall, zone) == wall - UtcOffset(wall, zone)

\* the times of day datetime.now() is drawn from
Nows == {0, BaseHour * Hour - 1, BaseHour * Hour, Day - 1}

\* A base date at the local day start; C10 as amended does not survive it.
BaseDateMidnight(t) == (t \div Day) * Day

\* line 221: datetime.now().replace(hour=6, minute=0, second=0, microsecond=0)
BaseDate(t) == (t \div Day) * Day + BaseHour * Hour

\* line 228
current_date(base, d) == base + d * Day

\* line 233
start_time(current, p) == current + (p * PartHours) * Hour

\* line 234
end_time(start) == start + PartHours * Hour

\* What a window request can end in: a payload with success, a status
\* other than 200 (251-253), a payload without the success flag (257-259),
\* or an exception of session.get or response.json (288-290).
WindowOutcomes == {"ok", "http_error", "not_success", "exception"}

\* dict.get: the value of the key, None when the key is absent
Get(d, key) == IF key \in DOMAIN d THEN d[key] ELSE PyNone

\* d[key] = v on a dict
With(d, key, v) ==
    [x \in DOMAIN d \cup {key} |-> IF x = key THEN v ELSE d[x]]

\* A listing record as the source sends it: 'id', start 's', end 'e' and
\* title 't'; hits as in Program.
Listing(id, s, t) ==
    [id |-> PyInt(id), hits |-> <<>>, s |-> PyInt(s), e |-> PyInt(s + 1800),
     t |-> PyStr(t)]

News == Listing(5, 3600, <<"N", "e", "w", "s">>)

Film == Listing(7, 5400, <<"F", "i", "l", "m">>)

\* The channels arrays of a window payload (line 262): none, a channel
\* with one or with two programs, a channel without 'cid' that carries an
\* 'id', a channel with neither, a channel without programs.
WindowPrograms ==
    {<<>>,
     <<[cid |-> PyStr(<<"1", "0", "1">>), programs |-> <<News>>]>>,
     <<[cid |-> PyStr(<<"1", "0", "1">>), programs |-> <<News, Film>>]>>,
     <<[id |-> PyStr(<<"9">>), programs |-> <<Film>>],
       [programs |-> <<News>>]>>,
     <<[cid |-> PyStr(<<"1", "0", "1">>), programs |-> <<Film>>],
       [cid |-> PyStr(<<"9">>), programs |-> <<News>>]>>,
     <<[cid |-> PyStr(<<"1", "0", "1">>), programs |-> <<>>]>>}

\* lines 265-273: every program of every channel that has a cid and
\* programs, tagged with that cid, in the order of the payload
RECURSIVE TagPrograms(_)
TagPrograms(channels_array) ==
    IF channels_array = <<>> THEN <<>>
    ELSE LET channel == Head(channels_array)
             cid == IF Truthy(Get(channel, "cid")) THEN Get(channel, "cid")
                    ELSE Get(channel, "id")
             channel_programs == channel.programs
             tagged == [k \in 1..Len(channel_programs) |->
                          With(channel_programs[k], "cid", cid)]
         IN  (IF Truthy(cid) /\ channel_programs # <<>> THEN tagged ELSE <<>>)
                \o TagPrograms(Tail(channels_array))

\* where the programs that TagPrograms keeps stand in the payload of
\* window w, from channel c on
RECURSIVE Places(_, _, _)
Places(channels_array, w, c) ==
    IF c > Len(channels_array) THEN <<>>
    ELSE LET channel == channels_array[c]
             cid == IF Truthy(Get(channel, "cid")) THEN Get(channel, "cid")
                    ELSE Get(channel, "id")
         IN  (IF Truthy(cid) /\ channel.programs # <<>>
              THEN [p \in 1..Len(channel.programs) |->
                      [window |-> w, channel |-> c, program |-> p,
                       source |-> channel.programs[p]]]
              ELSE <<>>)
                \o Places(channels_array, w, c + 1)

\* A list that grows at its front; C23 does not survive it.
CollectedInFront(so_far, new) == new \o so_far

\* line 273: all_programs.append(program), for the programs of one window
Collected(so_far, new) == so_far \o new

\* The records the source sends over one download: up to MaxRecords in a
\* download of at most MaxRunDays days; in a longer download every listing
\* is empty, and the model follows the windows alone.
Quota(d) == IF d <= MaxRunDays THEN MaxRecords ELSE 0

InitWindows ==
    /\ pc = "dl_start"
    /\ epg_data = <<>>
    /\ EnhanceIdle
    /\ AuthIdle /\ XmlIdle /\ MainIdle /\ CleanIdle
    /\ days \in 1..MaxDays
    /\ now \in Nows
    /\ tz \in TimeZones
    /\ base_date = 0
    /\ day = 0
    /\ part = 0
    /\ windows = <<>>
    /\ all_programs = <<>>
    /\ window_ok = FALSE
    /\ origins = <<>>
    /\ result = "none"

\* lines 217-227: the base date, the empty list, the loop entered
StartDownload ==
    /\ pc = "dl_start"
    /\ base_date' = BaseDate(now)
    /\ all_programs' = <<>>
    /\ day' = 0
    /\ part' = 0
    /\ pc' = IF 0 < days THEN "dl_window" ELSE "dl_end"
    /\ UNCHANGED <<epg_data, enhVars, restVars, days, now, tz, windows,
                   window_ok, origins, result>>

\* lines 231-278: one pass of the inner loop, one window request
FetchWindow ==
    /\ pc = "dl_window"
    /\ LET start == start_time(current_date(base_date, day), part)
           params == [start |-> timestamp(start, tz),
                      end |-> timestamp(end_time(start), tz)]
       IN  windows' = Append(windows, params)
    /\ \E outcome \in WindowOutcomes :
       \E programs \in WindowPrograms :
          IF outcome = "exception"
          THEN /\ pc' = "dl_returned"
               /\ result' = "False"
               /\ UNCHANGED <<day, part, all_programs, window_ok, origins>>
          ELSE /\ Len(all_programs) + Len(TagPrograms(programs)) <= Quota(days)
               /\ all_programs' =
                     IF outcome = "ok"
                     THEN Collected(all_programs, TagPrograms(programs))
                     ELSE all_programs
               /\ origins' =
                     IF outcome = "ok"
                     THEN Collected(origins,
                                    Places(programs, Len(windows) + 1, 1))
                     ELSE origins
               /\ window_ok' = (window_ok \/ outcome = "ok")
               /\ part' = IF part + 1 < PartsPerDay THEN part + 1 ELSE 0
               /\ day' = IF part + 1 < PartsPerDay THEN day ELSE day + 1
               /\ pc' = IF day' < days THEN "dl_window" ELSE "dl_end"
               /\ result' = result
    /\ UNCHANGED <<epg_data, enhVars, restVars, days, now, tz, base_date>>

\* lines 281-286: the list is stored and True returned
FinishDownload ==
    /\ pc = "dl_end"
    /\ epg_data' = all_programs
    /\ result' = "True"
    /\ pc' = "dl_returned"
    /\ UNCHANGED <<enhVars, restVars, days, now, tz, base_date, day, part,
                   windows, all_programs, window_ok, origins>>

NextWindows == StartDownload \/ FetchWindow \/ FinishDownload

SpecWindows == InitWindows /\ [][NextWindows]_vars

(***************************************************************************)
(* _clean_text (lines 624-642).  A text is a sequence of one-character     *)
(* strings.                                                                *)
(***************************************************************************)
\* str.replace(c, entity) for a one-character c
RECURSIVE Replace(_, _, _)
Replace(t, c, entity) ==
    IF t = <<>> THEN <<>>
    ELSE (IF Head(t) = c THEN entity ELSE <<Head(t)>>)
            \o Replace(Tail(t), c, entity)

Amp == <<"&", "a", "m", "p", ";">>

Lt == <<"&", "l", "t", ";">>

Gt == <<"&", "g", "t", ";">>

\* An escape that leaves '&' alone; C18 as amended does not survive it.
EscapeAmpNone(t) == t

\* line 637
EscapeAmp(t) == Replace(t, "&", Amp)

\* line 638
EscapeLt(t) == Replace(t, "<", Lt)

\* line 639
EscapeGt(t) == Replace(t, ">", Gt)

\* the index of the first '>' of t after position k, 0 when there is none
NextGt(t, k) ==
    IF \E j \in (k + 1)..Len(t) : t[j] = ">"
    THEN CHOOSE j \in (k + 1)..Len(t) :
            t[j] = ">" /\ \A h \in (k + 1)..(j - 1) : t[h] # ">"
    ELSE 0

\* line 640: re.sub(r'<[^>]*>', '', text), the scan being at position k.
\* A match starts at a '<' that has a '>' after it and ends at the first
\* such '>'; the scan goes on behind the match.
RECURSIVE SubTagsFrom(_, _)
SubTagsFrom(t, k) ==
    IF k > Len(t) THEN <<>>
    ELSE IF t[k] = "<" /\ NextGt(t, k) # 0
         THEN SubTagsFrom(t, NextGt(t, k) + 1)
         ELSE <<t[k]>> \o SubTagsFrom(t, k + 1)

SubTags(t) == SubTagsFrom(t, 1)

\* line 642: str.strip() of the blank
RECURSIVE strip(_)
strip(t) ==
    IF t = <<>> THEN <<>>
    ELSE IF Head(t) = " " THEN strip(Tail(t))
    ELSE IF t[Len(t)] = " " THEN strip(SubSeq(t, 1, Len(t) - 1))
    ELSE t

\* lines 633-642
clean_text(t) ==
    IF t = <<>> THEN <<>>
    ELSE strip(SubTags(EscapeGt(EscapeLt(EscapeAmp(t)))))

\* The texts _clean_text is applied to: every string of at most MaxTextLen
\* characters over the three XML-significant characters, a letter and the
\* blank.
TextAlphabet == {"&", "<", ">", "b", " "}

Texts == UNION {[1..n -> TextAlphabet] : n \in 0..MaxTextLen}

InitClean ==
    /\ pc = "clean"
    /\ epg_data = <<>>
    /\ EnhanceIdle /\ DownloadIdle /\ AuthIdle /\ XmlIdle /\ MainIdle
    /\ text \in Texts
    /\ once = <<>>
    /\ twice = <<>>

\* _clean_text(text)
Clean ==
    /\ pc = "clean"
    /\ once' = clean_text(text)
    /\ pc' = "cleaned"
    /\ UNCHANGED <<epg_data, enhVars, dlVars, authVars, xmlVars, mainVars,
                   text, twice>>

\* _clean_text applied to its own result
CleanAgain ==
    /\ pc = "cleaned"
    /\ twice' = clean_text(once)
    /\ pc' = "cleaned_twice"
    /\ UNCHANGED <<epg_data, enhVars, dlVars, authVars, xmlVars, mainVars,
                   text, once>>

NextClean == Clean \/ CleanAgain

SpecClean == InitClean /\ [][NextClean]_vars

(***************************************************************************)
(* generate_xmltv (lines 445-622).  An element is [tag, text, children];   *)
(* the document is the channel elements and the programme elements of the  *)
(* tv element, in order.                                                   *)
(***************************************************************************)
Element(tag, txt) == [tag |-> tag, text |-> txt, children |-> <<>>]

\* dict.get(key, []) of a list-valued key
GetList(d, key) == IF key \in DOMAIN d THEN d[key] ELSE <<>>

\* lines 469-481
ChannelElement(channel_info) ==
    [id |-> channel_info.cid,
     display_name |-> Replace(channel_info.title, "&", Amp),
     icon |-> channel_info.logo]

\* A test for presence instead of truth; C20 as amended does not survive it.
EmittedIfPresent(program) ==
    /\ Get(program, "cid") # PyNone
    /\ Get(program, "s") # PyNone
    /\ Get(program, "e") # PyNone
    /\ Get(program, "t") # PyNone

\* line 493: all([cid, start_time, end_time, title])
Emitted(program) ==
    /\ Truthy(Get(program, "cid"))
    /\ Truthy(Get(program, "s"))
    /\ Truthy(Get(program, "e"))
    /\ Truthy(Get(program, "t"))

\* datetime.fromtimestamp: the local wall-clock time of a timestamp
fromtimestamp(ts, zone) ==
    ts + (IF ts < zone.day * Day + 3 * Hour - zone.before
          THEN zone.before ELSE zone.after)

\* lines 500-501: strftime('%Y%m%d%H%M%S +0200')
strftime(wall) ==
    [Ymd |-> wall \div Day, H |-> (wall % Day) \div Hour,
     M |-> (wall % Hour) \div 60, S |-> wall % 60, offset |-> "+0200"]

\* int(series_num)
IntOf(v) == IF v.type = "int" THEN v.n ELSE int(v.s)

\* int() raises ValueError on a string that is not a number
IntRaises(v) == v.type = "str" /\ ~IsNumeric(v.s)

\* lines 580-581: str(int(series_num) - 1) if series_num else ''
series_str(series_num) ==
    IF Truthy(series_num) THEN str(PyInt(IntOf(series_num) - 1)) ELSE <<>>

\* The format "season.episode"; C19 as amended does not survive it.
episode_text_short(season, episode) == season \o <<".">> \o episode

\* line 582: f"{series_str}.{episode_str}."
episode_text(season, episode) == season \o <<".">> \o episode \o <<".">>

\* An element also for a list without names; C21 does not survive it.
NameElementsPadded(tag, names) == <<Element(tag, <<>>)>>

\* the elements of the truthy names of a list, sanitized (548-552, 561-571)
NameElements(tag, names) ==
    LET kept == SelectSeq(names, Truthy)
    IN  [k \in 1..Len(kept) |-> Element(tag, clean_text(kept[k].s))]

\* lines 509-590: the children of a programme element, in order
Children(program) ==
    LET subtitle == Get(program, "et")
        description == Get(program, "d")
        image == Get(program, "i_t")
        year == Get(program, "year")
        land == Get(program, "country")
        credits == GetList(program, "cr")
        series_num == Get(program, "s_no")
        episode_num == Get(program, "e_no")
        rating == Get(program, "yp_r")
    IN  <<Element("title", clean_text(Get(program, "t").s))>>
        \o (IF Truthy(subtitle)
            THEN <<Element("sub-title", clean_text(subtitle.s))>> ELSE <<>>)
        \o (IF Truthy(description)
            THEN <<Element("desc", clean_text(description.s))>> ELSE <<>>)
        \o (IF Truthy(image)
            THEN <<Element("icon", <<"https://images.zattic.com/cms/">>
                                     \o image.s \o <<"/original.jpg">>)>>
            ELSE <<>>)
        \o (IF Truthy(year) THEN <<Element("date", str(year))>> ELSE <<>>)
        \o (IF Truthy(land) THEN <<Element("country", land.s)>> ELSE <<>>)
        \o NameElements("category", GetList(program, "g"))
        \o (IF DOMAIN credits # {}
            THEN <<[tag |-> "credits", text |-> <<>>,
                    children |->
                       NameElements("director", GetList(credits, "director"))
                       \o NameElements("actor", GetList(credits, "actor"))]>>
            ELSE <<>>)
        \o (IF Truthy(series_num) \/ Truthy(episode_num)
            THEN <<Element("episode-num",
                           episode_text(series_str(series_num),
                                        series_str(episode_num)))>>
            ELSE <<>>)
        \o (IF Truthy(rating)
            THEN <<[tag |-> "rating", text |-> <<>>,
                    children |-> <<Element("value", str(rating))>>]>>
            ELSE <<>>)

\* lines 497-590
Programme(program, zone) ==
    [start |-> strftime(fromtimestamp(Get(program, "s").n, zone)),
     stop |-> strftime(fromtimestamp(Get(program, "e").n, zone)),
     channel |-> Get(program, "cid"),
     children |-> Children(program)]

\* What makes the method raise on a record it emits: a timestamp that is
\* not a number (497-498), a season or episode that int() rejects
\* (580-581), a channel id that is not a string (rejected by tree.write).
ProgrammeRaises(program) ==
    \/ Get(program, "s").type # "int"
    \/ Get(program, "e").type # "int"
    \/ Get(program, "cid").type # "str"
    \/ Truthy(Get(program, "s_no")) /\ IntRaises(Get(program, "s_no"))
    \/ Truthy(Get(program, "e_no")) /\ IntRaises(Get(program, "e_no"))

\* lines 455-598: the tree, or the fact that building or writing it raised
generate_xmltv(chs, epg, zone) ==
    LET emitted == SelectSeq(epg, Emitted)
        raised == \E k \in 1..Len(emitted) : ProgrammeRaises(emitted[k])
    IN  [raised |-> raised,
         channels |-> [k \in 1..Len(chs) |-> ChannelElement(chs[k])],
         programmes |-> IF raised THEN <<>>
                        ELSE [k \in 1..Len(emitted) |->
                                Programme(emitted[k], zone)],
         program_count |-> Len(emitted)]

\* A builder that writes the sanitized titles back into the records; C22
\* does not survive it.
GenerateXmltvInPlace ==
    /\ pc = "generate"
    /\ epg_data' = [k \in 1..Len(epg_data) |->
                      IF Truthy(Get(epg_data[k], "t"))
                      THEN With(epg_data[k], "t",
                                PyStr(clean_text(epg_data[k].t.s) \o <<" ">>))
                      ELSE epg_data[k]]
    /\ xml_result' = "False"
    /\ pc' = "generated"
    /\ UNCHANGED <<enhVars, dlVars, authVars, mainVars, cleanVars,
                   return_data, document>>

\* lines 455-622: the call.  In the file mode the write can fail (611-614).
GenerateXmltv ==
    /\ pc = "generate"
    /\ \E write_ok \in BOOLEAN :
          LET tree == generate_xmltv(channels, epg_data, tz)
          IN  /\ return_data => write_ok
              /\ IF tree.raised \/ ~write_ok
                 THEN /\ xml_result' = "False"
                      /\ document' = document
                 ELSE /\ xml_result' = IF return_data THEN "data" ELSE "True"
                      /\ document' = [channels |-> tree.channels,
                                      programmes |-> tree.programmes]
    /\ pc' = "generated"
    /\ UNCHANGED <<epg_data, enhVars, dlVars, authVars, mainVars, cleanVars,
                   return_data>>

\* The channel sets and records generate_xmltv is applied to on its own.
Cid101 == PyStr(<<"1", "0", "1">>)

Cid999 == PyStr(<<"9", "9", "9">>)

ChannelA == [cid |-> Cid101, title |-> <<"A">>, logo |-> ""]

ChannelB ==
    [cid |-> PyStr(<<"b">>), title |-> <<"B", "&", "B">>,
     logo |-> "https://logos.zattic.com/b/210x120.png"]

ChannelSets == {<<ChannelA>>, <<ChannelA, ChannelB>>}

\* season and episode as the source can send them: absent, 0, a number,
\* the number as a string, something that is no number
SeasonValues ==
    {PyNone, PyInt(0), PyInt(1), PyInt(2), PyStr(<<"2">>), PyStr(<<"a">>)}

EpisodeValues == {PyNone, PyInt(5)}

Plain101 == With(News, "cid", Cid101)

\* every optional field present
Rich101 ==
    [id |-> PyInt(7), hits |-> <<>>, cid |-> Cid101, s |-> PyInt(5400),
     e |-> PyInt(7200), t |-> PyStr(<<"F", "&", "F">>),
     et |-> PyStr(<<"E">>), d |-> PyStr(<<"<", "i", ">">>),
     i_t |-> PyStr(<<"x">>), year |-> PyInt(1999), country |-> PyStr(<<"D">>),
     g |-> <<PyStr(<<"G">>), PyStr(<<>>)>>,
     cr |-> [director |-> <<PyStr(<<"D">>)>>, actor |-> <<PyStr(<<"A">>)>>],
     s_no |-> PyInt(2), e_no |-> PyInt(5), yp_r |-> PyInt(12)]

XmlRecords ==
    {Plain101, Rich101,
     With(Plain101, "cid", Cid999),
     [x \in DOMAIN Plain101 \ {"t"} |-> Plain101[x]],
     With(Plain101, "t", PyStr(<<>>)),
     [x \in DOMAIN Plain101 \ {"s"} |-> Plain101[x]],
     With(Plain101, "e", PyInt(0)),
     With(Plain101, "s", PyStr(<<"1">>))}
    \cup {With(With(Plain101, "s_no", a), "e_no", b) :
             a \in SeasonValues, b \in EpisodeValues}

XmlEpg == UNION {[1..n -> XmlRecords] : n \in 0..MaxXmlLen}

XmlZones == {z \in TimeZones : z.day = 0}

InitXmltv ==
    /\ pc = "generate"
    /\ epg_data \in XmlEpg
    /\ EnhanceIdle /\ MainIdle /\ CleanIdle
    /\ country = "DE" /\ power_guide_hash = "h" /\ cookie = TRUE
    /\ sent = <<>>
    /\ days = 0 /\ now = 0 /\ base_date = 0 /\ day = 0 /\ part = 0
    /\ windows = <<>> /\ all_programs = <<>> /\ window_ok = FALSE
    /\ origins = <<>>
    /\ result = "none"
    /\ tz \in XmlZones
    /\ channels \in ChannelSets
    /\ return_data \in BOOLEAN
    /\ document = [channels |-> <<>>, programmes |-> <<>>]
    /\ xml_result = "none"

NextXmltv == GenerateXmltv

SpecXmltv == InitXmltv /\ [][NextXmltv]_vars

(***************************************************************************)
(* The session: get_session_token (52-101), login (103-158) and            *)
(* get_channels (160-206).  A response is [raises, status, body]: raises   *)
(* when the request or response.json() raised, body the JSON object.       *)
(***************************************************************************)
Raised == [raises |-> TRUE, status |-> 0, body |-> <<>>]

Http(status, body) == [raises |-> FALSE, status |-> status, body |-> body]

\* `not data.get('success')`
Success(body) == "success" \in DOMAIN body /\ body.success

TokenResponses ==
    {Raised, Http(500, <<>>), Http(200, <<>>),
     Http(200, [session_token |-> PyStr(<<"t">>)])}

\* the answers to session/hello, each with or without the session cookie
HelloResponses ==
    {Raised, Http(500, <<>>), Http(200, [beaker |-> FALSE]),
     Http(200, [beaker |-> TRUE])}

\* lines 54-101: the result, the requests made, the Cookie header
get_session_token(token_response, hello_response) ==
    LET first == <<[name |-> "token", response |-> token_response]>>
        both == Append(first, [name |-> "hello", response |-> hello_response])
        failed(requests_made) ==
            [result |-> "False", sent |-> requests_made, cookie |-> FALSE]
    IN  IF token_response.raises \/ token_response.status # 200 THEN failed(first)
        ELSE IF ~Truthy(Get(token_response.body, "session_token"))
             THEN failed(first)
        ELSE IF hello_response.raises \/ hello_response.status # 200
             THEN failed(both)
        ELSE IF ~hello_response.body.beaker THEN failed(both)
        ELSE [result |-> "True", sent |-> both, cookie |-> TRUE]

Regions == {"DE", "CH"}

LoginResponses ==
    {Raised, Http(401, <<>>), Http(200, [success |-> FALSE]),
     Http(200, [success |-> TRUE])}
    \cup {Http(200, [success |-> TRUE,
                     session |-> [service_region_country |-> r,
                                  power_guide_hash |-> h]]) :
             r \in Regions, h \in {"", "h"}}

\* A region test that accepts every region; C14 does not survive it.
RegionAny(service_region, configured) == TRUE

\* line 135: `if service_region != self.country` does not hold
RegionMatches(service_region, configured) == service_region = configured

\* lines 113-158: the result, the line printed, self.power_guide_hash
login(response, configured, hash) ==
    LET session == IF "session" \in DOMAIN response.body
                   THEN response.body.session
                   ELSE [service_region_country |-> "",
                         power_guide_hash |-> ""]
        failed(line, h) ==
            [result |-> "False", line |-> line, power_guide_hash |-> h]
    IN  IF response.raises THEN failed("FAILED! Error", hash)
        ELSE IF response.status # 200 THEN failed("FAILED!", hash)
        ELSE IF ~Success(response.body) THEN failed("FAILED!", hash)
        ELSE IF ~RegionMatches(session.service_region_country, configured)
             THEN failed("WRONG COUNTRY!", hash)
        ELSE IF session.power_guide_hash = ""
             THEN failed("FAILED! No power guide hash received.", "")
        ELSE [result |-> "True", line |-> "OK!",
              power_guide_hash |-> session.power_guide_hash]

\* lines 188-194: the logo of a channel's first quality, resized and made
\* absolute
LogoUrl(qualities) ==
    IF qualities = <<>> THEN ""
    ELSE CASE qualities[1] = "/b/84x48.png" ->
                 "https://logos.zattic.com/b/210x120.png"
           [] qualities[1] = "https://x/b/84x48.png" ->
                 "https://x/b/210x120.png"
           [] OTHER -> qualities[1]

\* self.channels[cid] = info: a new key goes to the end, a known key keeps
\* its place
PutChannel(chs, info) ==
    IF \E j \in 1..Len(chs) : chs[j].cid = info.cid
    THEN [j \in 1..Len(chs) |-> IF chs[j].cid = info.cid THEN info ELSE chs[j]]
    ELSE Append(chs, info)

\* lines 181-199 over the channels of all groups; an entry that is no
\* object makes channel.get raise
RECURSIVE AddChannels(_, _)
AddChannels(chs, entries) ==
    IF entries = <<>> THEN [channels |-> chs, raised |-> FALSE]
    ELSE LET channel == Head(entries)
         IN  IF "malformed" \in DOMAIN channel
             THEN [channels |-> chs, raised |-> TRUE]
             ELSE IF Truthy(Get(channel, "cid")) /\ Truthy(Get(channel, "title"))
                  THEN AddChannels(
                          PutChannel(chs, [cid |-> channel.cid,
                                           title |-> channel.title.s,
                                           logo |-> LogoUrl(channel.qualities)]),
                          Tail(entries))
                  ELSE AddChannels(chs, Tail(entries))

RECURSIVE Flatten(_)
Flatten(groups) ==
    IF groups = <<>> THEN <<>>
    ELSE Head(groups).channels \o Flatten(Tail(groups))

SourceA == [cid |-> Cid101, title |-> PyStr(<<"A">>), qualities |-> <<>>]

SourceB ==
    [cid |-> PyStr(<<"b">>), title |-> PyStr(<<"B", "&", "B">>),
     qualities |-> <<"/b/84x48.png">>]

Untitled == [cid |-> Cid999, title |-> PyStr(<<>>), qualities |-> <<>>]

ChannelGroups ==
    {<<>>,
     <<[channels |-> <<Untitled>>]>>,
     <<[channels |-> <<SourceA>>]>>,
     <<[channels |-> <<SourceA, Untitled>>], [channels |-> <<SourceB>>]>>,
     <<[channels |-> <<SourceA, [malformed |-> TRUE]>>]>>}

ChannelsResponses ==
    {Raised, Http(500, <<>>), Http(200, [success |-> FALSE])}
    \cup {Http(200, [success |-> TRUE, channel_groups |-> g]) :
             g \in ChannelGroups}

\* lines 162-206: the result and self.channels
get_channels(response, chs) ==
    IF response.raises \/ response.status # 200 \/ ~Success(response.body)
    THEN [result |-> "False", channels |-> chs]
    ELSE LET added == AddChannels(chs, Flatten(response.body.channel_groups))
         IN  [result |-> IF ~added.raised /\ Len(added.channels) > 0
                         THEN "True" ELSE "False",
              channels |-> added.channels]

(***************************************************************************)
(* main (lines 831-982).  calls lists the methods main has called, each    *)
(* with what it returned and the line it printed.                          *)
(***************************************************************************)
Call(name, returned, line) ==
    [name |-> name, result |-> returned, line |-> line]

\* A gate that lets every result pass; C13 does not survive it.
ProceedsAnyway(returned) == TRUE

\* lines 886, 891, 898, 909: `if not epg.<method>(): ... sys.exit(1)`
Proceeds(returned) == returned = "True"

ArgSets ==
    [no_details : BOOLEAN, tvheadend : BOOLEAN, tvheadend_only : BOOLEAN]

InitRun ==
    /\ pc = "main"
    /\ epg_data = <<>>
    /\ EnhanceIdle /\ XmlIdle /\ CleanIdle
    /\ args \in ArgSets
    /\ calls = <<>>
    /\ printed = <<>>
    /\ exit_status = "running"
    /\ country \in Regions
    /\ power_guide_hash = ""
    /\ channels = <<>>
    /\ cookie = FALSE
    /\ sent = <<>>
    /\ days \in 1..MaxRunDays
    /\ now = 0
    /\ tz = [before |-> 0, after |-> 0, day |-> 0]
    /\ base_date = 0 /\ day = 0 /\ part = 0
    /\ windows = <<>> /\ all_programs = <<>> /\ window_ok = FALSE
    /\ origins = <<>>
    /\ result = "none"

\* sys.exit(1)
Exit1 ==
    /\ pc' = "exited"
    /\ exit_status' = "exit1"

\* lines 863-883: the service check and the credentials, either of which
\* can end the run
CheckService ==
    /\ pc = "main"
    /\ \E ok \in BOOLEAN :
          IF ok THEN pc' = "m_token" /\ exit_status' = exit_status
          ELSE Exit1
    /\ UNCHANGED <<epg_data, enhVars, dlVars, authVars, xmlVars, cleanVars,
                   args, calls, printed>>

\* lines 885-888
CallGetSessionToken ==
    /\ pc = "m_token"
    /\ \E token_response \in TokenResponses :
       \E hello_response \in HelloResponses :
          LET r == get_session_token(token_response, hello_response)
          IN  /\ sent' = sent \o r.sent
              /\ cookie' = r.cookie
              /\ calls' = Append(calls,
                                 Call("get_session_token", r.result, ""))
              /\ IF Proceeds(r.result)
                 THEN pc' = "m_login" /\ exit_status' = exit_status
                 ELSE Exit1
    /\ UNCHANGED <<epg_data, enhVars, dlVars, xmlVars, cleanVars, args,
                   printed, country, power_guide_hash, channels>>

\* lines 890-893
CallLogin ==
    /\ pc = "m_login"
    /\ \E response \in LoginResponses :
          LET r == login(response, country, power_guide_hash)
          IN  /\ sent' = Append(sent, [name |-> "login", response |-> response])
              /\ power_guide_hash' = r.power_guide_hash
              /\ calls' = Append(calls, Call("login", r.result, r.line))
              /\ IF Proceeds(r.result)
                 THEN pc' = "m_channels" /\ exit_status' = exit_status
                 ELSE Exit1
    /\ UNCHANGED <<epg_data, enhVars, dlVars, xmlVars, cleanVars, args,
                   printed, country, channels, cookie>>

\* lines 897-900
CallGetChannels ==
    /\ pc = "m_channels"
    /\ \E response \in ChannelsResponses :
          LET r == get_channels(response, channels)
          IN  /\ sent' = Append(sent, [name |-> "channels",
                                       response |-> response])
              /\ channels' = r.channels
              /\ calls' = Append(calls, Call("get_channels", r.result, ""))
              /\ IF Proceeds(r.result)
                 THEN pc' = "dl_start" /\ exit_status' = exit_status
                 ELSE Exit1
    /\ UNCHANGED <<epg_data, enhVars, dlVars, xmlVars, cleanVars, args,
                   printed, country, power_guide_hash, cookie>>

\* lines 909-925: download_epg_data has returned
AfterDownload ==
    /\ pc = "dl_returned"
    /\ calls' = Append(calls, Call("download_epg_data", result, ""))
    /\ IF ~Proceeds(result) THEN Exit1
       ELSE /\ pc' = IF args.no_details THEN "m_generate" ELSE "start"
            /\ exit_status' = exit_status
    /\ UNCHANGED <<epg_data, enhVars, dlVars, authVars, xmlVars, cleanVars,
                   args, printed>>

\* line 925: enhance_epg_data has returned, or its exception leaves main
AfterEnhance ==
    /\ pc \in {"returned", "raised"}
    /\ IF pc = "returned"
       THEN /\ calls' = Append(calls, Call("enhance_epg_data", "None", ""))
            /\ pc' = "m_generate"
            /\ exit_status' = exit_status
       ELSE /\ calls' = Append(calls, Call("enhance_epg_data", "raised",
                                           exception))
            /\ pc' = "exited"
            /\ exit_status' = "traceback"
    /\ UNCHANGED <<epg_data, enhVars, dlVars, authVars, xmlVars, cleanVars,
                   args, printed>>

\* lines 938-940, 957: the arguments of generate_xmltv
CallGenerate ==
    /\ pc = "m_generate"
    /\ return_data' = args.tvheadend_only
    /\ pc' = "generate"
    /\ UNCHANGED <<epg_data, enhVars, dlVars, authVars, mainVars, cleanVars,
                   document, xml_result>>

\* lines 976-982
Summary ==
    (IF args.tvheadend_only THEN <<>> ELSE <<"Output file">>)
    \o <<"Channels", "Programs">>
    \o (IF args.tvheadend \/ args.tvheadend_only
        THEN <<"EPG data sent to TVHeadend.">> ELSE <<>>)

\* lines 941-982: generate_xmltv has returned; the delivery, the summary
AfterGenerate ==
    /\ pc = "generated"
    /\ pc' = "exited"
    /\ \E send_ok \in BOOLEAN :
          LET generated == Call("generate_xmltv", xml_result, "")
              sending == IF args.tvheadend_only THEN "send_xml_to_tvheadend"
                         ELSE "send_to_tvheadend"
              delivered == Call(sending, IF send_ok THEN "True" ELSE "False",
                                "")
          IN  IF xml_result = "False"
              THEN /\ send_ok
                   /\ calls' = Append(calls, generated)
                   /\ printed' = printed
                   /\ exit_status' = "exit1"
              ELSE IF args.tvheadend_only
              THEN /\ calls' = calls \o <<generated, delivered>>
                   /\ printed' = IF send_ok THEN Summary ELSE printed
                   /\ exit_status' = IF send_ok THEN "exit0" ELSE "exit1"
              ELSE IF args.tvheadend
              THEN /\ calls' = calls \o <<generated, delivered>>
                   /\ printed' = Summary
                   /\ exit_status' = "exit0"
              ELSE /\ send_ok
                   /\ calls' = Append(calls, generated)
                   /\ printed' = Summary
                   /\ exit_status' = "exit0"
    /\ UNCHANGED <<epg_data, enhVars, dlVars, authVars, xmlVars, cleanVars,
                   args>>

NextRun ==
    \/ CheckService \/ CallGetSessionToken \/ CallLogin \/ CallGetChannels
    \/ StartDownload \/ FetchWindow \/ FinishDownload \/ AfterDownload
    \/ Collect \/ Request \/ Merge \/ Final \/ AfterEnhance
    \/ CallGenerate \/ GenerateXmltv \/ AfterGenerate

SpecRun == InitRun /\ [][NextRun]_vars

(***************************************************************************)
(* Notions the properties below use.                                       *)
(***************************************************************************)
\* ceil(n / d), computed without the program's own formula
CeilDiv(n, d) == CHOOSE q \in 0..n : q * d >= n /\ (q = 0 \/ (q - 1) * d < n)

\* the number of TRUE entries of a sequence of booleans
CountTrue(flags) == Cardinality({k \in 1..Len(flags) : flags[k]})

\* the batches the loop has started so far
Started ==
    Len(outcomes) +
    (IF pc \in {"request", "merge"} \/ exception = "ValueError" THEN 1 ELSE 0)

\* the batch loop has ended (normally or by break)
LoopEnded == pc \in {"final", "returned"} \/ exception = "ZeroDivisionError"

\* the loop ended with batches it never started
StoppedEarly == LoopEnded /\ i + batch_size < Len(program_ids)

\* the last six merged batches all exhausted their attempts
SixInARow ==
    /\ Len(outcomes) >= MaxConnectionErrors + 1
    /\ \A k \in (Len(outcomes) - MaxConnectionErrors)..Len(outcomes) : outcomes[k]

\* p is the string form of a positive integer
Canonical(p) == IsNumeric(p) /\ int(p) > 0 /\ NatToStr(int(p)) = p

(***************************************************************************)
(* C1.  As claimed: whatever the source answers, enhance_epg_data issues   *)
(* exactly ceil(N/20) detail requests for N collected ids.                 *)
(***************************************************************************)
C1_ExactlyCeilRequests ==
    LoopEnded => requests = CeilDiv(Len(program_ids), batch_size)

\* C1 as amended: the loop starts at most ceil(N/20) batches (the number
\* total_batches holds), all of them when it is not stopped by the
\* connection-error threshold, and issues from one to three requests for
\* every batch it has started.
C1_BatchesAndRequests ==
    /\ total_batches(Len(program_ids)) = CeilDiv(Len(program_ids), batch_size)
    /\ Started <= CeilDiv(Len(program_ids), batch_size)
    /\ requests <= max_retries * Started
    /\ pc \in {"merge", "final", "returned"} => requests >= Started
    /\ LoopEnded /\ ~TooManyErrors(connection_errors)
          => Len(outcomes) = CeilDiv(Len(program_ids), batch_size)

\* C1 witness: a run over several batches that ended with every batch
\* processed and with more requests than batches.
C1_Witness ==
    /\ pc = "returned"
    /\ Len(outcomes) = CeilDiv(Len(program_ids), batch_size)
    /\ Len(outcomes) >= 2
    /\ requests > Len(outcomes)

(***************************************************************************)
(* C2.  As claimed: the batches partition the collected identifier set:    *)
(* every batch has at most 20 ids, every collected id lies in a batch and  *)
(* no id lies in two batches, also when two records carry the same id.     *)
(***************************************************************************)
C2_BatchesPartitionIds ==
    LET n == Len(program_ids)
        starts == {b * batch_size : b \in 0..(CeilDiv(n, batch_size) - 1)}
    IN  pc # "start" =>
          /\ \A b \in starts : Len(Batch(program_ids, b)) <= batch_size
          /\ \A p \in Keys(program_ids) :
                Cardinality({b \in starts : p \in Keys(Batch(program_ids, b))}) = 1

(***************************************************************************)
(* C3.  As claimed: a batch gets at most 3 requests, a further one only    *)
(* after an empty map, none after a non-empty map, and the waits between   *)
(* attempts are 2 s, 4 s and 8 s.                                          *)
(***************************************************************************)
C3_RetryWithBackoff ==
    /\ Len(attempts) <= max_retries
    /\ \A k \in 1..(Len(attempts) - 1) : attempts[k]
    /\ pc = "request" => \A k \in 1..Len(attempts) : attempts[k]
    /\ pc = "merge" /\ batch_details = {} => waits = <<2000, 4000, 8000>>

(***************************************************************************)
(* C4.  As claimed: when the map returned for a batch of m ids holds k of  *)
(* them, the merge overlays exactly k records, leaves the others as they   *)
(* were, adds m - k to the failed count and does not abort the run.        *)
(***************************************************************************)
C4_MergeOverlaysK ==
    [][pc = "merge" =>
         LET batch == Batch(program_ids, i)
             k == Cardinality({b \in 1..Len(batch) : batch[b] \in batch_details})
         IN  /\ pc' # "raised"
             /\ Cardinality({j \in 1..Len(epg_data) :
                               epg_data'[j] # epg_data[j]}) = k
             /\ failed_count' = failed_count + (Len(batch) - k)]_vars

(***************************************************************************)
(* C5.  When six batches in a row have exhausted their attempts the loop   *)
(* has halted with the sixth: no request goes out for a later batch, and   *)
(* the only records carrying detail fields are those enriched before.      *)
(***************************************************************************)
C5_HaltAfterSixExhausted ==
    SixInARow =>
        /\ pc \in {"final", "returned"}
        /\ i = (Len(outcomes) - 1) * batch_size
        /\ \A j \in 1..Len(epg_data) :
              \A h \in 1..Len(epg_data[j].hits) :
                 epg_data[j].hits[h] \in
                    Keys(SubSeq(program_ids, 1,
                                (Len(outcomes) - MaxConnectionErrors - 1) * batch_size))

\* C5 witness: a batch was enriched, the next six were exhausted, and the
\* method returned with a batch it never requested.
C5_Witness ==
    /\ SixInARow
    /\ pc = "returned"
    /\ StoppedEarly
    /\ \E j \in 1..Len(epg_data) : epg_data[j].hits # <<>>

(***************************************************************************)
(* C6.  As claimed: the count that triggers the early abort is a streak,   *)
(* ended by a batch that obtains details: the loop stops early only after  *)
(* more than 5 exhausted batches in a row.                                 *)
(***************************************************************************)
C6_AbortOnlyOnStreak == StoppedEarly => SixInARow

\* C6 as amended: connection_errors is the number of batches, since the
\* start of the run, that exhausted their attempts; a batch that obtains
\* details leaves it as it is; the loop stops early exactly when that
\* total exceeds 5.
C6_AbortOnTotal ==
    /\ connection_errors =
          CountTrue(outcomes) +
          (IF pc = "merge" /\ batch_details = {} THEN 1 ELSE 0)
    /\ StoppedEarly => CountTrue(outcomes) > MaxConnectionErrors
    /\ CountTrue(outcomes) > MaxConnectionErrors => LoopEnded

\* C6 witness: the loop stopped early although a batch inside the last six
\* obtained details.
C6_Witness == StoppedEarly /\ ~SixInARow /\ pc = "returned"

(***************************************************************************)
(* C7.  As claimed: enhance_epg_data never lets an exception reach its     *)
(* caller, whatever epg_data holds and whatever the source answers.        *)
(***************************************************************************)
C7_NeverRaises == pc # "raised"

(***************************************************************************)
(* C8.  A detail entry keyed by the string form of n is overlaid on the    *)
(* first record whose id is n, stored as the integer n or as that string,  *)
(* and on no other record.                                                 *)
(***************************************************************************)
C8_FormatTolerantMatch ==
    [][pc = "merge" /\ pc' # "raised" =>
         \A p \in Keys(Batch(program_ids, i)) \cap batch_details :
            Canonical(p) =>
               LET same == {j \in 1..Len(epg_data) :
                              epg_data[j].id \in {PyInt(int(p)), PyStr(p)}}
                   got == {j \in 1..Len(epg_data) :
                              \E h \in (Len(epg_data[j].hits) + 1)
                                         ..Len(epg_data'[j].hits) :
                                 epg_data'[j].hits[h] = p}
               IN  /\ same # {}
                   /\ got = {CHOOSE j \in same : \A f \in same : j <= f}]_vars

\* C8 witness: a record with an integer id and a record with a string id
\* both carry the details keyed by the string form of their id.
C8_Witness ==
    \E j, f \in 1..Len(epg_data) :
       /\ epg_data[j].id.type = "int"
       /\ epg_data[j].hits = <<str(epg_data[j].id)>>
       /\ epg_data[f].id.type = "str"
       /\ Canonical(epg_data[f].id.s)
       /\ epg_data[f].hits = <<epg_data[f].id.s>>

(***************************************************************************)
(* C9.  As claimed: no record is overlaid more than once, and a record     *)
(* whose id is in a returned map is overlaid, also when two records carry  *)
(* the same id.                                                            *)
(***************************************************************************)
C9_MutatedOnce ==
    \A j \in 1..Len(epg_data) : Len(epg_data[j].hits) <= 1

(***************************************************************************)
(* C10.  As claimed: download_epg_data issues exactly 4d window requests;  *)
(* the windows are contiguous, each spans exactly 6 hours, and together    *)
(* they span exactly d days from the local day start of the current day.   *)
(* Stated of the runs that return True, where no request raised.           *)
(***************************************************************************)
C10_WindowsFromDayStart ==
    pc = "dl_returned" /\ result = "True" =>
        /\ Len(windows) = 4 * days
        /\ \A k \in 1..Len(windows) : windows[k].end - windows[k].start = 6 * Hour
        /\ \A k \in 1..(Len(windows) - 1) : windows[k + 1].start = windows[k].end
        /\ windows[1].start =
              (now \div Day) * Day
                - (IF (now \div Day) * Day < tz.day * Day + 3 * Hour
                   THEN tz.before ELSE tz.after)
        /\ windows[Len(windows)].end - windows[1].start = days * Day

\* C10 as amended: the requests go out in window order, at most 4d of them
\* and all 4d when the method returns True (an exception of a request ends
\* the loop there, with False).  The k-th window is [B + 6(k-1)h, B + 6k h)
\* of local wall-clock time, B being 06:00 local time of the current day,
\* sent as timestamps: the windows are contiguous and do not overlap, each
\* spans 6 hours unless the UTC offset changes inside it (then an hour less
\* or more), and the 4d windows span d wall-clock days from B.
C10_WindowsFromSix ==
    LET n == Len(windows)
        off(w) == IF w < tz.day * Day + 3 * Hour THEN tz.before ELSE tz.after
        B == (now \div Day) * Day + 6 * Hour
        wallStart(k) == B + (k - 1) * 6 * Hour
        wallEnd(k) == B + k * 6 * Hour
    IN  /\ n <= 4 * days
        /\ pc = "dl_returned" /\ result = "True" => n = 4 * days
        /\ \A k \in 1..n :
              /\ windows[k].start = wallStart(k) - off(wallStart(k))
              /\ windows[k].end = wallEnd(k) - off(wallEnd(k))
              /\ windows[k].start < windows[k].end
              /\ windows[k].end - windows[k].start \in {5 * Hour, 6 * Hour, 7 * Hour}
              /\ off(wallStart(k)) = off(wallEnd(k))
                    => windows[k].end - windows[k].start = 6 * Hour
        /\ \A k \in 1..(n - 1) : windows[k + 1].start = windows[k].end
        /\ n = 4 * days =>
              windows[n].end - windows[1].start =
                 days * Day - (off(B + days * Day) - off(B))

\* C10 witness: a run over 14 days returned True after 56 requests, one of
\* them for a window the daylight-saving change made shorter or longer.
C10_Witness ==
    /\ pc = "dl_returned"
    /\ result = "True"
    /\ days = MaxDays
    /\ Len(windows) = 56
    /\ \E k \in 1..Len(windows) : windows[k].end - windows[k].start # 6 * Hour

(***************************************************************************)
(* C11.  As claimed: whatever way a window request fails (status, success  *)
(* flag, malformed payload, transport error), the remaining windows are    *)
(* still requested, the download is not aborted and the records gathered   *)
(* from the other windows are kept: download_epg_data ends with all 4d     *)
(* requests issued, returns True and stores every gathered record.         *)
(***************************************************************************)
C11_FailedWindowSkipped ==
    pc = "dl_returned" =>
        /\ Len(windows) = PartsPerDay * days
        /\ result = "True"
        /\ epg_data = all_programs

(***************************************************************************)
(* C17.  As claimed: _clean_text strips the markup tags of its input and   *)
(* escapes the '&', '<' and '>' that remain, ampersand first; its result   *)
(* is the input without its tags, escaped ('<b>b' yields 'b').            *)
(***************************************************************************)
C17_StripsTagsThenEscapes ==
    pc = "cleaned" =>
        once = strip(EscapeGt(EscapeLt(EscapeAmp(SubTags(text)))))

\* the text has none of the three XML-significant characters
Plain(t) == \A k \in 1..Len(t) : t[k] \notin {"&", "<", ">"}

(***************************************************************************)
(* C18.  As claimed: _clean_text(_clean_text(t)) = _clean_text(t) for      *)
(* every text t.                                                           *)
(***************************************************************************)
C18_Idempotent == pc = "cleaned_twice" => twice = once

\* C18 as amended: sanitizing sanitized text is a no-op exactly for the
\* texts that have no '&', '<' or '>'; for them the result is the text
\* without its leading and trailing blanks.  The result of every other
\* text carries the '&' of an entity, which the second call escapes again.
C18_IdempotentOnPlain ==
    pc = "cleaned_twice" =>
        /\ (twice = once) <=> Plain(text)
        /\ Plain(text) => once = strip(text)
        /\ ~Plain(text) => Len(twice) > Len(once)

\* C18 witness: a text with blanks around a letter was sanitized twice,
\* the first call stripped it and the second changed nothing.
C18_Witness ==
    /\ pc = "cleaned_twice"
    /\ Plain(text)
    /\ once # text
    /\ once # <<>>
    /\ twice = once

\* generate_xmltv returned a document (True, or the XML data)
Produced == xml_result \in {"True", "data"}

\* the texts of the episode-num children of a programme element
EpisodeTexts(programme) ==
    LET nums == SelectSeq(programme.children,
                          LAMBDA c : c.tag = "episode-num")
    IN  [k \in 1..Len(nums) |-> nums[k].text]

(***************************************************************************)
(* C15.  As claimed: every programme element of the document references a  *)
(* channel of the channel set; a record whose channel identifier is not a  *)
(* key of self.channels is dropped from the document.                      *)
(***************************************************************************)
C15_ProgrammesReferenceChannels ==
    Produced =>
        \A k \in 1..Len(document.programmes) :
           \E j \in 1..Len(channels) :
              channels[j].cid = document.programmes[k].channel

(***************************************************************************)
(* C19.  As claimed: with season 2 and no episode the episode-num text of  *)
(* the programme element is exactly "1.".                                  *)
(***************************************************************************)
C19_SeasonTwoRendersOneDot ==
    /\ Produced
    /\ Len(epg_data) = 1
    /\ Get(epg_data[1], "s_no") = PyInt(2)
    /\ Get(epg_data[1], "e_no") = PyNone
    => /\ Len(document.programmes) = 1
       /\ EpisodeTexts(document.programmes[1]) = << <<"1", ".">> >>

\* the zero-based rendering of the one-based values of the inputs
ZeroBased(v) ==
    CASE v = PyInt(1) -> <<"0">>
      [] v \in {PyInt(2), PyStr(<<"2">>)} -> <<"1">>
      [] v = PyInt(5) -> <<"4">>
      [] OTHER -> <<>>

\* the records generate_xmltv does not skip at line 493
Kept == SelectSeq(epg_data, LAMBDA r : /\ Truthy(Get(r, "cid"))
                                       /\ Truthy(Get(r, "s"))
                                       /\ Truthy(Get(r, "e"))
                                       /\ Truthy(Get(r, "t")))

\* C19 as amended: the text is season, '.', episode, '.', both zero-based;
\* a component that is absent or 0 is the empty string, so season 2 without
\* an episode renders as "1..".  There is no episode-num element when both
\* are absent or 0, and no document at all when a kept record carries a
\* season or episode that is not a number.
C19_SeasonDotEpisodeDot ==
    /\ Produced =>
          /\ Len(document.programmes) = Len(Kept)
          /\ \A k \in 1..Len(Kept) :
                LET season == Get(Kept[k], "s_no")
                    episode == Get(Kept[k], "e_no")
                IN  EpisodeTexts(document.programmes[k]) =
                       IF Truthy(season) \/ Truthy(episode)
                       THEN <<ZeroBased(season) \o <<".">>
                                \o ZeroBased(episode) \o <<".">>>>
                       ELSE <<>>
    /\ (pc = "generated" /\ \E k \in 1..Len(Kept) :
            \/ Get(Kept[k], "s_no") = PyStr(<<"a">>)
            \/ Get(Kept[k], "e_no") = PyStr(<<"a">>))
          => xml_result = "False"

\* C19 witness: a document was built from a record of season 2 without an
\* episode, and its episode-num text is "1..".
C19_Witness ==
    /\ Produced
    /\ Len(epg_data) = 1
    /\ Get(epg_data[1], "s_no") = PyInt(2)
    /\ Get(epg_data[1], "e_no") = PyNone
    /\ EpisodeTexts(document.programmes[1]) = << <<"1", ".", ".">> >>

\* the records whose channel identifier, start, end and title are present
AllPresent == SelectSeq(epg_data, LAMBDA r : /\ Get(r, "cid") # PyNone
                                             /\ Get(r, "s") # PyNone
                                             /\ Get(r, "e") # PyNone
                                             /\ Get(r, "t") # PyNone)

\* the programme elements are those of the records recs, in their order
ProgrammesOf(recs) ==
    /\ Len(document.programmes) = Len(recs)
    /\ \A k \in 1..Len(recs) :
          /\ document.programmes[k].channel = Get(recs[k], "cid")
          /\ document.programmes[k].start.Ymd * Day
               + document.programmes[k].start.H * Hour
               + document.programmes[k].start.M * 60
               + document.programmes[k].start.S
             = Get(recs[k], "s").n
                 + (IF Get(recs[k], "s").n < 3 * Hour - tz.before
                    THEN tz.before ELSE tz.after)
          /\ document.programmes[k].children[1].tag = "title"
          /\ (Get(recs[k], "t") = PyStr(<<"N", "e", "w", "s">>)
                => document.programmes[k].children[1].text
                      = <<"N", "e", "w", "s">>)

(***************************************************************************)
(* C20.  As claimed: the document has one programme element for every      *)
(* record whose channel identifier, start, end and title are all present,  *)
(* in epg_data order, and no other programme element.                      *)
(***************************************************************************)
C20_EmittedIffPresent == Produced => ProgrammesOf(AllPresent)

\* C20 as amended: when generate_xmltv returns a document, its programme
\* elements are those of the records whose channel identifier, start, end
\* and title are all present and truthy (a record with an empty title or a
\* start or end of 0 is dropped as well), one each, in epg_data order.
\* When the method fails (a kept record makes it raise, or the file cannot
\* be written) it returns False and there is no document.
C20_EmittedIffTruthy ==
    /\ Produced => ProgrammesOf(Kept)
    /\ pc = "generated" /\ ~Produced =>
          /\ xml_result = "False"
          /\ document.programmes = <<>>

\* C20 witness: a document of one programme element was built from two
\* records, the one with the empty title dropped.
C20_Witness ==
    /\ Produced
    /\ Len(epg_data) = 2
    /\ Get(epg_data[1], "t") = PyStr(<<>>)
    /\ Emitted(epg_data[2])
    /\ Len(document.programmes) = 1

\* main has called the method and it has returned or raised
Called(name) == \E k \in 1..Len(calls) : calls[k].name = name

Returned(name, returned) ==
    \E k \in 1..Len(calls) :
       calls[k].name = name /\ calls[k].result = returned

\* how many requests of that name were sent
SentCount(name) == Cardinality({k \in 1..Len(sent) : sent[k].name = name})

(***************************************************************************)
(* C12.  As claimed: when every listing window of a run has failed,        *)
(* download_epg_data does not report success and neither enrichment nor    *)
(* document building is carried out.                                       *)
(***************************************************************************)
C12_ZeroWindowsFatal ==
    Len(windows) = PartsPerDay * days /\ ~window_ok =>
        /\ result # "True"
        /\ ~Called("enhance_epg_data")
        /\ ~Called("generate_xmltv")

(***************************************************************************)
(* C13.  No channel-list, listing or detail request is issued unless       *)
(* get_session_token and login have both returned True; no listing or      *)
(* detail request is issued unless get_channels has returned True with at  *)
(* least one channel; a failure of one of the three steps ends the run     *)
(* with exit status 1 as the last call of main, and none of their requests *)
(* is sent twice.                                                          *)
(***************************************************************************)
C13_StageGating ==
    /\ SentCount("channels") > 0 \/ Len(windows) > 0 \/ requests > 0 =>
          /\ Returned("get_session_token", "True")
          /\ Returned("login", "True")
    /\ Len(windows) > 0 \/ requests > 0 =>
          /\ Returned("get_channels", "True")
          /\ Len(channels) > 0
    /\ \A k \in 1..Len(calls) :
          /\ calls[k].name \in {"get_session_token", "login", "get_channels"}
          /\ calls[k].result = "False"
          => /\ k = Len(calls)
             /\ pc = "exited"
             /\ exit_status = "exit1"
    /\ \A name \in {"token", "hello", "login", "channels"} :
          SentCount(name) <= 1

\* C13 witness: the channel list came back with success and no usable
\* channel; the run ended there, no listing or detail request made.
C13_Witness ==
    /\ pc = "exited"
    /\ Returned("get_channels", "False")
    /\ \E k \in 1..Len(sent) :
          /\ sent[k].name = "channels"
          /\ ~sent[k].response.raises
          /\ sent[k].response.status = 200
          /\ Success(sent[k].response.body)
    /\ channels = <<>>
    /\ windows = <<>>
    /\ requests = 0

\* the k-th request was a login that the source accepted for a region
\* other than the configured one
RegionMismatch(k) ==
    /\ sent[k].name = "login"
    /\ ~sent[k].response.raises
    /\ sent[k].response.status = 200
    /\ Success(sent[k].response.body)
    /\ "session" \in DOMAIN sent[k].response.body
    /\ sent[k].response.body.session.service_region_country # country

(***************************************************************************)
(* C14.  When the login response carries a region other than the           *)
(* configured one, login returns False although the credentials were       *)
(* accepted, power_guide_hash stays unset, the login request is not sent   *)
(* again, and the run ends.                                                *)
(***************************************************************************)
C14_RegionMismatchFails ==
    \A k \in 1..Len(sent) :
       RegionMismatch(k) =>
          /\ Returned("login", "False")
          /\ ~Returned("login", "True")
          /\ power_guide_hash = ""
          /\ SentCount("login") = 1
          /\ SentCount("channels") = 0
          /\ pc = "exited"
          /\ exit_status = "exit1"

\* C14 witness: the source accepted the login and sent a guide-access
\* handle, for the other region.
C14_Witness ==
    \E k \in 1..Len(sent) :
       /\ RegionMismatch(k)
       /\ sent[k].response.body.session.power_guide_hash = "h"

(***************************************************************************)
(* C16.  As claimed: whatever the outcome of enhance_epg_data, the         *)
(* document is built by generate_xmltv afterwards; a run in which main     *)
(* called enhance_epg_data does not end without the call of                *)
(* generate_xmltv.                                                         *)
(***************************************************************************)
C16_DocumentBuiltAfterEnhance ==
    pc = "exited" /\ Called("enhance_epg_data") => Called("generate_xmltv")

\* the record has the four required fields and no optional field
OnlyRequired(r) == DOMAIN r \subseteq {"id", "hits", "cid", "s", "e", "t"}

(***************************************************************************)
(* C21.  A record with the four required fields and no optional field      *)
(* yields one programme element that carries the channel reference, start, *)
(* stop and the title as its only child; for the channel set {101: A} and  *)
(* the one record titled 'News' the document has one channel element, for  *)
(* 101, and one such programme element.                                    *)
(***************************************************************************)
C21_OnlyMandatoryParts ==
    Produced =>
        /\ Len(document.programmes) = Len(Kept)
        /\ \A k \in 1..Len(Kept) :
              OnlyRequired(Kept[k]) =>
                 /\ document.programmes[k].channel = Kept[k].cid
                 /\ DOMAIN document.programmes[k]
                       = {"channel", "start", "stop", "children"}
                 /\ document.programmes[k].children
                       = <<[tag |-> "title", text |-> <<"N", "e", "w", "s">>,
                            children |-> <<>>]>>
        /\ (channels = <<ChannelA>> /\ epg_data = <<Plain101>>) =>
              /\ Len(document.channels) = 1
              /\ document.channels[1].id = Cid101
              /\ Len(document.programmes) = 1

\* C21 witness: the document of the scenario was built.
C21_Witness ==
    /\ Produced
    /\ channels = <<ChannelA>>
    /\ epg_data = <<Plain101>>
    /\ Len(document.programmes) = 1
    /\ Len(document.programmes[1].children) = 1

(***************************************************************************)
(* C22.  generate_xmltv does not mutate its inputs: over the call, in the  *)
(* file mode and in the in-memory mode, whether it returns a document or   *)
(* fails, self.channels and every record of self.epg_data stay as they     *)
(* were.                                                                   *)
(***************************************************************************)
C22_InputsUnchanged ==
    [][pc = "generate" => epg_data' = epg_data /\ channels' = channels]_vars

\* C22 witness: the call failed in the file mode on two records with a
\* channel set of two.
C22_Witness ==
    /\ pc = "generated"
    /\ ~return_data
    /\ xml_result = "False"
    /\ Len(epg_data) = 2
    /\ Len(channels) = 2

\* the source sent a before b: in an earlier window, or in the same window
\* in an earlier channel, or in the same channel at an earlier place
SentBefore(a, b) ==
    \/ a.window < b.window
    \/ a.window = b.window /\ a.channel < b.channel
    \/ a.window = b.window /\ a.channel = b.channel /\ a.program < b.program

(***************************************************************************)
(* C23.  The records of download_epg_data stand in window traversal order: *)
(* a record of an earlier window precedes every record of a later window,  *)
(* the records of one window keep the order the source sent them in, each  *)
(* record is the source's record with the channel id added, and the list   *)
(* is stored as it is when the method returns True.                        *)
(***************************************************************************)
C23_WindowOrder ==
    /\ Len(origins) = Len(all_programs)
    /\ \A k \in 1..Len(all_programs) :
          /\ origins[k].window \in 1..Len(windows)
          /\ all_programs[k]
                = With(origins[k].source, "cid", all_programs[k].cid)
    /\ \A j, k \in 1..Len(origins) : j < k => SentBefore(origins[j], origins[k])
    /\ pc = "dl_returned" /\ result = "True" => epg_data = all_programs

\* C23 witness: a download returned two records of two windows, the Film
\* of the earlier window before the News of the later one.
C23_Witness ==
    /\ pc = "dl_returned"
    /\ result = "True"
    /\ Len(epg_data) = 2
    /\ origins[1].window < origins[2].window
    /\ epg_data[1].t = Film.t
    /\ epg_data[2].t = News.t

\* the batches the loop has left behind when it is about to request
BatchesBefore == i \div batch_size

(***************************************************************************)
(* C24.  Every batch that is merged is followed by exactly one pacing      *)
(* delay: the longer one when the merge changed no record, the shorter one *)
(* when it changed at least one; no other step pauses for pacing, so a     *)
(* request of a batch finds one delay for each batch before it.            *)
(***************************************************************************)
C24_OnePacePerBatch ==
    [][/\ (pc = "merge" /\ pc' # "raised") =>
              paces' = Append(paces, IF epg_data' = epg_data
                                     THEN LongPaceMs ELSE ShortPaceMs)
       /\ (pc # "merge" \/ pc' = "raised") => paces' = paces
       /\ pc' = "request" => Len(paces') = BatchesBefore']_vars

\* C24 witness: the third batch is being requested after a batch that
\* enriched nothing and a batch that enriched something.
C24_Witness ==
    /\ pc = "request"
    /\ BatchesBefore = 2
    /\ paces = <<LongPaceMs, ShortPaceMs>>

\* the ids of the batches merged so far
IdsMerged ==
    IF Len(outcomes) * batch_size < Len(program_ids)
    THEN Len(outcomes) * batch_size ELSE Len(program_ids)

\* the records that carry enrichment fields
Enriched == {j \in 1..Len(epg_data) : epg_data[j].hits # <<>>}

\* the counters add up to the ids of the batches merged so far, and to all
\* the ids when the loop ended without the early abort
CountsAddUp ==
    /\ enhanced_count + failed_count = IdsMerged
    /\ (LoopEnded /\ ~StoppedEarly) =>
           enhanced_count + failed_count = Len(program_ids)

(***************************************************************************)
(* C25.  As claimed: while enhance_epg_data has not raised, the enhanced   *)
(* and the failed count add up to the number of ids in the batches merged  *)
(* so far (to N when the loop ended without the early abort), and the      *)
(* enhanced count is the number of records that carry enrichment fields.   *)
(***************************************************************************)
C25_Accounting ==
    pc # "raised" =>
        /\ CountsAddUp
        /\ enhanced_count = Cardinality(Enriched)

\* the batch under way has used all its attempts and every one of them
\* returned an empty map
Exhausted(tries) ==
    Len(tries) = max_retries /\ \A k \in 1..Len(tries) : tries[k]

(***************************************************************************)
(* C26.  In every state of enhance_epg_data the connection-error count is  *)
(* at most 6 and at most the number of batches started.  The count changes *)
(* only with an answer to a request: it grows by 1 with the answer that    *)
(* makes all 3 attempts of the batch empty, and stays as it is with every  *)
(* other answer, so a batch adds 1 exactly when all its 3 attempts         *)
(* returned an empty map.                                                  *)
(***************************************************************************)
C26_ConnectionErrors ==
    /\ [](/\ connection_errors <= MaxConnectionErrors + 1
          /\ connection_errors <= Started)
    /\ [][/\ pc = "request" =>
                connection_errors' =
                   connection_errors + (IF Exhausted(attempts') THEN 1 ELSE 0)
          /\ pc \in {"merge", "final"} =>
                connection_errors' = connection_errors]_vars

\* C26 witness: the seventh batch has just used up its attempts and made
\* the count 6, one batch before it having obtained details.
C26_Witness ==
    /\ pc = "merge"
    /\ Exhausted(attempts)
    /\ Len(outcomes) = MaxConnectionErrors + 1
    /\ CountTrue(outcomes) = MaxConnectionErrors
    /\ connection_errors = MaxConnectionErrors + 1

\* enhance_epg_data has ended: it returned, or an exception left it
Ended == pc \in {"returned", "raised"}

(***************************************************************************)
(* C27.  enhance_epg_data always ends when every request returns or times  *)
(* out, and at every moment it has started at most ceil(N/20) batches and  *)
(* sent at most 3*ceil(N/20) detail requests for the N ids it collected.   *)
(***************************************************************************)
C27_Terminates ==
    /\ <>Ended
    /\ [](/\ Started <= CeilDiv(Len(program_ids), batch_size)
          /\ requests <= max_retries * CeilDiv(Len(program_ids), batch_size))

\* C27 witness: a run over more than 40 ids returned after it had started
\* every batch and used all three requests of every one of them.
C27_Witness ==
    /\ pc = "returned"
    /\ Len(program_ids) > 2 * batch_size
    /\ Started = CeilDiv(Len(program_ids), batch_size)
    /\ requests = max_retries * Started

\* the summary of the run holds the sent-to-TVHeadend line (line 982)
SummarySaysSent ==
    \E k \in 1..Len(printed) : printed[k] = "EPG data sent to TVHeadend."

\* a delivery to the sink returned True
Delivered ==
    \/ Returned("send_to_tvheadend", "True")
    \/ Returned("send_xml_to_tvheadend", "True")

(***************************************************************************)
(* C28.  As claimed: the summary of main holds the line 'EPG data sent to  *)
(* TVHeadend.' only when a delivery to the sink returned True; a           *)
(* send_to_tvheadend that returned False is never followed by that line.   *)
(***************************************************************************)
C28_SentOnlyWhenDelivered ==
    SummarySaysSent =>
        /\ Delivered
        /\ ~Returned("send_to_tvheadend", "False")
====
